---- MODULE Spec2Model ----
(***************************************************************************)
(* Connection registry and notification dispatcher                         *)
(* (packages/services/src/notificationService.ts), the notification routes *)
(* that call it (packages/api/src/routes/notifications.ts), and the two    *)
(* callers of broadcast outside the routes: PostService.createPost         *)
(* (packages/services/src/postService.ts) and UserService.updateUser       *)
(* (packages/services/src/userService.ts).                                 *)
(*                                                                         *)
(* The registry is a JavaScript Map<string, ConnectedClient>; it is kept   *)
(* here as the sequence of its entries in insertion order, which is the    *)
(* order Map.forEach and Map.keys use.  Every method of the service runs   *)
(* to completion on the event loop, so each is one action.  The channel    *)
(* (WebSocketConnection) is the environment: its readyState changes on its *)
(* own, its send and close calls may throw, a close call that returns may  *)
(* have moved it to CLOSING, and it fires 'close' and 'error' events, in a *)
(* later turn of the event loop, at the listeners installed on it.         *)
(***************************************************************************)
EXTENDS Integers, Sequences, FiniteSets, TLC

\* ---------------------------------------------------------------- bounds
\* The number of socket objects the environment hands to the service.
NumChannels == 2

\* ------------------------------------------------------------- universes
\* Identities are strings; the empty string is a legal Map key.
Users == {"alice", ""}
\* The value of an omitted excludeUserId argument.
NoUser == "undefined"

\* Socket objects are told apart by reference; 1..NumChannels names them.
Channels == 1..NumChannels
\* Map.get of a missing key.
NoSocket == 0

\* WebSocket readyState values.
CONNECTING == 0
OPEN == 1
CLOSING == 2
CLOSED == 3
ReadyStates == {CONNECTING, OPEN, CLOSING, CLOSED}

\* Values of the optional payload fields.
Undefined == "undefined"
Circular == "[Circular]"

\* new Date().toISOString() at the time of a send.
Clock == {"2026-10-30T00:00:00.000Z"}

\* NotificationPayload values handed to the service by its callers.
NotificationPayload ==
    { [type |-> "NEW_POST", message |-> "New post", userId |-> Undefined, data |-> "{postId}"],
      [type |-> "USER_UPDATE", message |-> "cyclic", userId |-> "alice", data |-> Circular] }

\* What createPost puts in the data of its notification from the row
\* prisma.post.create resolved with: a row with its author, a row whose
\* author is null (authorUsername is undefined and JSON.stringify leaves it
\* out), and Circular for a row holding a value JSON.stringify rejects.
NoAuthor == "{postId,title,authorId,createdAt}"

Posts == {"{postId,title,authorId,authorUsername,createdAt}", NoAuthor, Circular}

\* The notification createPost builds from the post it has stored; the
\* message names post.author?.username || 'Unknown'.
NewPostPayload(data) ==
    [type |-> "NEW_POST",
     message |-> IF data = NoAuthor
                 THEN "New post created: \"title\" by Unknown"
                 ELSE "New post created: \"title\" by username",
     userId |-> Undefined, data |-> data]

\* The data of an update request, by the fields it carries that updateUser
\* looks at.
UserUpdates == [username : BOOLEAN, profilePicture : BOOLEAN]

\* The notification updateUser builds from the row before and after the
\* update; every value in it is a string or null.
UserUpdatePayload(data) ==
    [type |-> "USER_UPDATE",
     message |-> IF data.profilePicture
                 THEN "username Profile picture updated"
                 ELSE "username Username changed to newname",
     userId |-> Undefined,
     data |-> IF data.profilePicture
              THEN "{userId,username,profilePicture,updateType:profile_picture}"
              ELSE "{userId,username,profilePicture,updateType:username}"]

\* The token of a request: absent, present without a valid signature, or
\* signed by the server with an id claim.
NoToken == [present |-> FALSE, valid |-> FALSE, id |-> NoUser]

Tokens ==
    {NoToken, [present |-> TRUE, valid |-> FALSE, id |-> "alice"]}
       \cup {[present |-> TRUE, valid |-> TRUE, id |-> u] : u \in Users}

\* The id claims of the callers of GET /status/:userId.
Callers == {"alice", "bob"}

\* The payload addClient sends through the new socket.
WelcomePayload ==
    [type |-> "SYSTEM", message |-> "Connected to notification service",
     userId |-> Undefined, data |-> Undefined]

VARIABLES
    clients,      \* the Map, as the sequence of its entries in insertion order
    readyState,   \* readyState of every socket
    listeners,    \* <<userId, socket>>: addClient's 'close' and 'error' closures on socket
    openAtInsert, \* the keys whose entry was put in the Map while its socket was OPEN
    last          \* the most recent call: its arguments, the calls it made, its result

vars == <<clients, readyState, listeners, openAtInsert, last>>

\* --------------------------------------------------------------- the Map
MapHas(m, userId) == \E i \in 1..Len(m) : m[i].userId = userId

MapIndex(m, userId) == CHOOSE i \in 1..Len(m) : m[i].userId = userId

MapGet(m, userId) ==
    IF MapHas(m, userId) THEN m[MapIndex(m, userId)].socket ELSE NoSocket

\* Mutant: every set adds an entry at the end, as a list of pairs would.
MapSet_Append(m, userId, socket) ==
    Append(m, [userId |-> userId, socket |-> socket])

\* Map.set keeps the position of a key that is already present.
MapSet(m, userId, socket) ==
    IF MapHas(m, userId)
    THEN [m EXCEPT ![MapIndex(m, userId)] = [userId |-> userId, socket |-> socket]]
    ELSE Append(m, [userId |-> userId, socket |-> socket])

MapDelete(m, userId) ==
    IF MapHas(m, userId)
    THEN LET k == MapIndex(m, userId)
         IN  [i \in 1..(Len(m) - 1) |-> IF i < k THEN m[i] ELSE m[i + 1]]
    ELSE m

MapKeys(m) == [i \in 1..Len(m) |-> m[i].userId]

\* The keys of the Map, without their order.
KeySet(m) == {m[i].userId : i \in 1..Len(m)}

\* ------------------------------------------------------- channel calls
NoMessage == {}

CloseCall(socket, threw) ==
    [fn |-> "close", socket |-> socket, message |-> NoMessage, threw |-> threw]

SendCall(socket, message, threw) ==
    [fn |-> "send", socket |-> socket, message |-> message, threw |-> threw]

\* socket.close(code, reason)
CloseWith(socket, code, reason, threw) ==
    [fn |-> "close", socket |-> socket,
     message |-> {<<"code", code>>, <<"reason", reason>>}, threw |-> threw]

\* socket.on(event, listener)
OnCall(socket, event) ==
    [fn |-> "on", socket |-> socket, message |-> {<<"event", event>>}, threw |-> FALSE]

\* The two subscriptions of addClient, in the order it makes them.
Subscribe(socket) == <<OnCall(socket, "close"), OnCall(socket, "error")>>

\* ------------------------------------------------------- serialization
\* JSON.stringify throws a TypeError on a cyclic structure.
stringifyThrows(obj) == obj.data = Circular

\* JSON.stringify of an object: the keys whose value is not undefined,
\* each with its value.
JSONstringify(obj) ==
    {<<k, obj[k]>> : k \in {f \in DOMAIN obj : obj[f] # Undefined}}

\* Mutant: the message is the bare payload, without a timestamp.
WithTimestamp_Missing(payload, now) == payload

\* { ...payload, timestamp: new Date().toISOString() }
WithTimestamp(payload, now) ==
    [k \in (DOMAIN payload) \cup {"timestamp"} |->
        IF k = "timestamp" THEN now ELSE payload[k]]

\* ---------------------------------------------------------- the service
\* Mutant: the entry is removed by position, as splice(indexOf(...), 1) does
\* in an array: when nothing matches, the last entry goes.
removeClient_Splice(m, userId, socket) ==
    IF MapHas(m, userId) /\ MapGet(m, userId) = socket
    THEN MapDelete(m, userId)
    ELSE IF m # <<>> THEN SubSeq(m, 1, Len(m) - 1) ELSE m

\* Mutant: the entry is deleted whatever socket it holds.
removeClient_NoCheck(m, userId, socket) == MapDelete(m, userId)

removeClient(m, userId, socket) ==
    IF MapHas(m, userId) /\ MapGet(m, userId) = socket
    THEN MapDelete(m, userId)
    ELSE m

\* Mutant: an entry whose socket is not OPEN is kept.
sendToUser_KeepNotReady(m, userId, payload, now, rs, sendFails) ==
    LET socket == MapGet(m, userId)
        obj == WithTimestamp(payload, now)
    IN  IF ~MapHas(m, userId)
        THEN [clients |-> m, calls |-> <<>>, returned |-> "false"]
        ELSE IF stringifyThrows(obj)
        THEN [clients |-> m, calls |-> <<>>, returned |-> "throw"]
        ELSE IF rs[socket] = OPEN
        THEN IF userId \in sendFails
             THEN [clients |-> removeClient(m, userId, socket),
                   calls |-> <<SendCall(socket, JSONstringify(obj), TRUE)>>,
                   returned |-> "false"]
             ELSE [clients |-> m,
                   calls |-> <<SendCall(socket, JSONstringify(obj), FALSE)>>,
                   returned |-> "true"]
        ELSE [clients |-> m,
              calls |-> <<>>,
              returned |-> "false"]

\* Mutant: an entry whose send() threw is kept.
sendToUser_KeepOnThrow(m, userId, payload, now, rs, sendFails) ==
    LET socket == MapGet(m, userId)
        obj == WithTimestamp(payload, now)
    IN  IF ~MapHas(m, userId)
        THEN [clients |-> m, calls |-> <<>>, returned |-> "false"]
        ELSE IF stringifyThrows(obj)
        THEN [clients |-> m, calls |-> <<>>, returned |-> "throw"]
        ELSE IF rs[socket] = OPEN
        THEN IF userId \in sendFails
             THEN [clients |-> m,
                   calls |-> <<SendCall(socket, JSONstringify(obj), TRUE)>>,
                   returned |-> "false"]
             ELSE [clients |-> m,
                   calls |-> <<SendCall(socket, JSONstringify(obj), FALSE)>>,
                   returned |-> "true"]
        ELSE [clients |-> removeClient(m, userId, socket),
              calls |-> <<>>,
              returned |-> "false"]

\* Mutant: the message is serialized before the Map is looked up.
sendToUser_StringifyFirst(m, userId, payload, now, rs, sendFails) ==
    LET socket == MapGet(m, userId)
        obj == WithTimestamp(payload, now)
    IN  IF stringifyThrows(obj)
        THEN [clients |-> m, calls |-> <<>>, returned |-> "throw"]
        ELSE IF ~MapHas(m, userId)
        THEN [clients |-> m, calls |-> <<>>, returned |-> "false"]
        ELSE IF rs[socket] = OPEN
        THEN IF userId \in sendFails
             THEN [clients |-> removeClient(m, userId, socket),
                   calls |-> <<SendCall(socket, JSONstringify(obj), TRUE)>>,
                   returned |-> "false"]
             ELSE [clients |-> m,
                   calls |-> <<SendCall(socket, JSONstringify(obj), FALSE)>>,
                   returned |-> "true"]
        ELSE [clients |-> removeClient(m, userId, socket),
              calls |-> <<>>,
              returned |-> "false"]

\* Mutant: a socket that is dropped because it is not OPEN is closed first.
sendToUser_CloseNotReady(m, userId, payload, now, rs, sendFails) ==
    LET socket == MapGet(m, userId)
        obj == WithTimestamp(payload, now)
    IN  IF ~MapHas(m, userId)
        THEN [clients |-> m, calls |-> <<>>, returned |-> "false"]
        ELSE IF stringifyThrows(obj)
        THEN [clients |-> m, calls |-> <<>>, returned |-> "throw"]
        ELSE IF rs[socket] = OPEN
        THEN IF userId \in sendFails
             THEN [clients |-> removeClient(m, userId, socket),
                   calls |-> <<SendCall(socket, JSONstringify(obj), TRUE)>>,
                   returned |-> "false"]
             ELSE [clients |-> m,
                   calls |-> <<SendCall(socket, JSONstringify(obj), FALSE)>>,
                   returned |-> "true"]
        ELSE [clients |-> removeClient(m, userId, socket),
              calls |-> <<CloseCall(socket, FALSE)>>,
              returned |-> "false"]

\* sendFails: the keys of the entries for which the send() made on their
\* socket throws; a socket stored under two keys takes one send() per key,
\* and each of them throws or returns by itself.
sendToUser(m, userId, payload, now, rs, sendFails) ==
    LET socket == MapGet(m, userId)
        obj == WithTimestamp(payload, now)
    IN  IF ~MapHas(m, userId)
        THEN [clients |-> m, calls |-> <<>>, returned |-> "false"]
        ELSE IF stringifyThrows(obj)
        THEN [clients |-> m, calls |-> <<>>, returned |-> "throw"]
        ELSE IF rs[socket] = OPEN
        THEN IF userId \in sendFails
             THEN [clients |-> removeClient(m, userId, socket),
                   calls |-> <<SendCall(socket, JSONstringify(obj), TRUE)>>,
                   returned |-> "false"]
             ELSE [clients |-> m,
                   calls |-> <<SendCall(socket, JSONstringify(obj), FALSE)>>,
                   returned |-> "true"]
        ELSE [clients |-> removeClient(m, userId, socket),
              calls |-> <<>>,
              returned |-> "false"]

\* Mutant: no welcome message is sent, so nothing looks at the new socket's
\* readyState.
addClient_NoWelcome(m, ls, userId, socket, now, rs, sendFails, closeFails) ==
    LET existing == MapGet(m, userId)
        closed == IF MapHas(m, userId)
                  THEN <<CloseCall(existing, userId \in closeFails)>>
                  ELSE <<>>
    IN  IF MapHas(m, userId) /\ userId \in closeFails
        THEN [clients |-> m, listeners |-> ls, stored |-> {}, calls |-> closed,
              returned |-> "throw"]
        ELSE [clients |-> MapSet(m, userId, socket),
              listeners |-> ls \cup {<<userId, socket>>},
              stored |-> {userId},
              calls |-> closed \o Subscribe(socket),
              returned |-> "void"]

\* Mutant: the welcome message is sent before the new entry is stored, so it
\* goes to whatever the Map holds for the user at that time.
addClient_WelcomeFirst(m, ls, userId, socket, now, rs, sendFails, closeFails) ==
    LET existing == MapGet(m, userId)
        closed == IF MapHas(m, userId)
                  THEN <<CloseCall(existing, userId \in closeFails)>>
                  ELSE <<>>
    IN  IF MapHas(m, userId) /\ userId \in closeFails
        THEN [clients |-> m, listeners |-> ls, stored |-> {}, calls |-> closed,
              returned |-> "throw"]
        ELSE LET welcome == sendToUser(m, userId, WelcomePayload, now, rs, sendFails)
             IN  [clients |-> MapSet(welcome.clients, userId, socket),
                  listeners |-> ls \cup {<<userId, socket>>},
                  stored |-> {userId},
                  calls |-> closed \o welcome.calls \o Subscribe(socket),
                  returned |-> "void"]

\* Mutant: when the welcome message cannot be delivered, the entry the user
\* held before the call is put back.
addClient_RestoreOld(m, ls, userId, socket, now, rs, sendFails, closeFails) ==
    LET existing == MapGet(m, userId)
        closed == IF MapHas(m, userId)
                  THEN <<CloseCall(existing, userId \in closeFails)>>
                  ELSE <<>>
    IN  IF MapHas(m, userId) /\ userId \in closeFails
        THEN [clients |-> m, listeners |-> ls, stored |-> {}, calls |-> closed,
              returned |-> "throw"]
        ELSE LET welcome == sendToUser(MapSet(m, userId, socket), userId,
                                       WelcomePayload, now, rs, sendFails)
             IN  [clients |-> IF welcome.returned = "true" THEN welcome.clients ELSE m,
                  listeners |-> ls \cup {<<userId, socket>>},
                  stored |-> {userId},
                  calls |-> closed \o Subscribe(socket) \o welcome.calls,
                  returned |-> "void"]

\* Mutant: the socket the user already holds is not closed.
addClient_NoClose(m, ls, userId, socket, now, rs, sendFails, closeFails) ==
    LET welcome == sendToUser(MapSet(m, userId, socket), userId,
                              WelcomePayload, now, rs, sendFails)
    IN  [clients |-> welcome.clients,
         listeners |-> ls \cup {<<userId, socket>>},
         stored |-> {userId},
         calls |-> Subscribe(socket) \o welcome.calls,
         returned |-> "void"]

\* closeFails: the keys of the entries for which the close() made on their
\* socket throws.  stored is the key clients.set was called with, if the call
\* got that far.
addClient(m, ls, userId, socket, now, rs, sendFails, closeFails) ==
    LET existing == MapGet(m, userId)
        closed == IF MapHas(m, userId)
                  THEN <<CloseCall(existing, userId \in closeFails)>>
                  ELSE <<>>
    IN  IF MapHas(m, userId) /\ userId \in closeFails
        THEN [clients |-> m, listeners |-> ls, stored |-> {}, calls |-> closed,
              returned |-> "throw"]
        ELSE LET welcome == sendToUser(MapSet(m, userId, socket), userId,
                                       WelcomePayload, now, rs, sendFails)
             IN  [clients |-> welcome.clients,
                  listeners |-> ls \cup {<<userId, socket>>},
                  stored |-> {userId},
                  calls |-> closed \o Subscribe(socket) \o welcome.calls,
                  returned |-> "void"]

\* if (excludeUserId && ...): undefined and the empty string are falsy.
Truthy(excludeUserId) == excludeUserId # NoUser /\ excludeUserId # ""

\* clients.forEach of broadcast over the keys still to visit.  An exception
\* of sendToUser leaves forEach and broadcast at once.  The sends of one
\* broadcast happen within the same clock reading.
RECURSIVE broadcastEach(_, _, _, _, _, _, _)
broadcastEach(keys, st, payload, excludeUserId, now, rs, sendFails) ==
    IF keys = <<>>
    THEN st
    ELSE LET userId == Head(keys)
         IN  IF ~MapHas(st.clients, userId)
             THEN broadcastEach(Tail(keys), st, payload, excludeUserId, now, rs, sendFails)
             ELSE IF Truthy(excludeUserId) /\ userId = excludeUserId
             THEN broadcastEach(Tail(keys), st, payload, excludeUserId, now, rs, sendFails)
             ELSE LET r == sendToUser(st.clients, userId, payload, now, rs, sendFails)
                  IN  IF r.returned = "throw"
                      THEN [clients |-> r.clients, calls |-> st.calls \o r.calls,
                            count |-> st.count, returned |-> "throw"]
                      ELSE broadcastEach(Tail(keys),
                               [clients |-> r.clients, calls |-> st.calls \o r.calls,
                                count |-> IF r.returned = "true"
                                          THEN st.count + 1 ELSE st.count,
                                returned |-> "count"],
                               payload, excludeUserId, now, rs, sendFails)

broadcast(m, payload, excludeUserId, now, rs, sendFails) ==
    broadcastEach(MapKeys(m),
                  [clients |-> m, calls |-> <<>>, count |-> 0, returned |-> "count"],
                  payload, excludeUserId, now, rs, sendFails)

getConnectedUsers(m) == MapKeys(m)

getConnectionCount(m) == Len(m)

isUserConnected(m, userId) == MapHas(m, userId)

\* Mutant: the delete stands outside the readyState test, so every entry
\* goes, and the sockets that are not OPEN are closed.
RECURSIVE cleanupEach_ReapAll(_, _, _, _)
cleanupEach_ReapAll(keys, st, rs, closeFails) ==
    IF keys = <<>>
    THEN st
    ELSE LET userId == Head(keys)
             socket == MapGet(st.clients, userId)
         IN  IF ~MapHas(st.clients, userId)
             THEN cleanupEach_ReapAll(Tail(keys), st, rs, closeFails)
             ELSE cleanupEach_ReapAll(Tail(keys),
                      [clients |-> MapDelete(st.clients, userId),
                       calls |-> IF rs[socket] # OPEN
                                 THEN Append(st.calls,
                                             CloseCall(socket, userId \in closeFails))
                                 ELSE st.calls,
                       returned |-> "void"],
                      rs, closeFails)

\* Mutant: only a socket that reports CLOSED is reaped.
RECURSIVE cleanupEach_OnlyClosed(_, _, _, _)
cleanupEach_OnlyClosed(keys, st, rs, closeFails) ==
    IF keys = <<>>
    THEN st
    ELSE LET userId == Head(keys)
             socket == MapGet(st.clients, userId)
         IN  IF ~MapHas(st.clients, userId)
             THEN cleanupEach_OnlyClosed(Tail(keys), st, rs, closeFails)
             ELSE IF rs[socket] = CLOSED
             THEN cleanupEach_OnlyClosed(Tail(keys),
                      [clients |-> MapDelete(st.clients, userId),
                       calls |-> Append(st.calls, CloseCall(socket, userId \in closeFails)),
                       returned |-> "void"],
                      rs, closeFails)
             ELSE cleanupEach_OnlyClosed(Tail(keys), st, rs, closeFails)

\* Mutant: a socket that is not OPEN is closed but its entry is kept.
RECURSIVE cleanupEach_KeepEntry(_, _, _, _)
cleanupEach_KeepEntry(keys, st, rs, closeFails) ==
    IF keys = <<>>
    THEN st
    ELSE LET userId == Head(keys)
             socket == MapGet(st.clients, userId)
         IN  IF ~MapHas(st.clients, userId)
             THEN cleanupEach_KeepEntry(Tail(keys), st, rs, closeFails)
             ELSE IF rs[socket] # OPEN
             THEN cleanupEach_KeepEntry(Tail(keys),
                      [clients |-> st.clients,
                       calls |-> Append(st.calls, CloseCall(socket, userId \in closeFails)),
                       returned |-> "void"],
                      rs, closeFails)
             ELSE cleanupEach_KeepEntry(Tail(keys), st, rs, closeFails)

\* Mutant: close() is called outside a try block, so its exception leaves
\* forEach and the method with the entry still in the Map.
RECURSIVE cleanupEach_NoTry(_, _, _, _)
cleanupEach_NoTry(keys, st, rs, closeFails) ==
    IF keys = <<>>
    THEN st
    ELSE LET userId == Head(keys)
             socket == MapGet(st.clients, userId)
         IN  IF ~MapHas(st.clients, userId)
             THEN cleanupEach_NoTry(Tail(keys), st, rs, closeFails)
             ELSE IF rs[socket] # OPEN
             THEN IF userId \in closeFails
                  THEN [clients |-> st.clients,
                        calls |-> Append(st.calls, CloseCall(socket, TRUE)),
                        returned |-> "throw"]
                  ELSE cleanupEach_NoTry(Tail(keys),
                           [clients |-> MapDelete(st.clients, userId),
                            calls |-> Append(st.calls, CloseCall(socket, FALSE)),
                            returned |-> "void"],
                           rs, closeFails)
             ELSE cleanupEach_NoTry(Tail(keys), st, rs, closeFails)

\* clients.forEach of cleanupInactiveConnections over the keys still to visit.
RECURSIVE cleanupEach(_, _, _, _)
cleanupEach(keys, st, rs, closeFails) ==
    IF keys = <<>>
    THEN st
    ELSE LET userId == Head(keys)
             socket == MapGet(st.clients, userId)
         IN  IF ~MapHas(st.clients, userId)
             THEN cleanupEach(Tail(keys), st, rs, closeFails)
             ELSE IF rs[socket] # OPEN
             THEN cleanupEach(Tail(keys),
                      [clients |-> MapDelete(st.clients, userId),
                       calls |-> Append(st.calls, CloseCall(socket, userId \in closeFails)),
                       returned |-> "void"],
                      rs, closeFails)
             ELSE cleanupEach(Tail(keys), st, rs, closeFails)

cleanupInactiveConnections(m, rs, closeFails) ==
    cleanupEach(MapKeys(m), [clients |-> m, calls |-> <<>>, returned |-> "void"],
                rs, closeFails)

\* Mutant: the closures delete the entry of the user they captured without
\* going through removeClient's comparison of sockets.
RECURSIVE emit_DeleteByUser(_, _, _)
emit_DeleteByUser(m, captured, socket) ==
    IF captured = {}
    THEN m
    ELSE LET userId == CHOOSE u \in captured : TRUE
         IN  emit_DeleteByUser(MapDelete(m, userId), captured \ {userId}, socket)

\* A 'close' or 'error' event of socket runs every closure addClient installed
\* on it: each calls removeClient(userId, socket) with the pair it captured.
RECURSIVE emit(_, _, _)
emit(m, captured, socket) ==
    IF captured = {}
    THEN m
    ELSE LET userId == CHOOSE u \in captured : TRUE
         IN  emit(removeClient(m, userId, socket), captured \ {userId}, socket)

\* ----------------------------------------------------------- the routes
Roles == {"anonymous", "USER", "ADMIN"}

\* Mutant: the role claim is not compared with the allowed roles.
authenticate_NoRoleCheck(role, allowedRoles) ==
    IF role = "anonymous" THEN 401 ELSE 0

\* authenticate(allowedRoles): 0 when the request goes on to the handler,
\* else the status of the reply the preHandler sends.
authenticate(role, allowedRoles) ==
    IF role = "anonymous"
    THEN 401
    ELSE IF allowedRoles # {} /\ role \notin allowedRoles
    THEN 403
    ELSE 0

AuthReply(status) ==
    IF status = 401 THEN "Invalid or missing token" ELSE "Insufficient permissions"

\* The message of the send route's answer.
sendReply(returned) ==
    IF returned = "true"
    THEN "Notification sent successfully"
    ELSE IF returned = "false"
    THEN "User not connected"
    ELSE "Something went wrong"

\* The sentence of the 403 answer of GET /status/:userId.
StatusForbidden == "You can only check your own connection status"

\* GET /status/:userId after requireAuth: may the caller see userId's status?
statusAllowed(caller, role, userId) == ~(caller # userId /\ role # "ADMIN")

\* connection.close(1008, reason) of the GET /ws handler, after the calls
\* made so far.  Neither call site is inside a try block that could catch
\* it, so an exception of this close leaves the handler.
Refuse(m, ls, calls, connection, reason, refuseFails) ==
    [clients |-> m, listeners |-> ls, stored |-> {},
     calls |-> Append(calls, CloseWith(connection, "1008", reason, refuseFails)),
     returned |-> IF refuseFails THEN "throw" ELSE "void"]

\* Mutant: the token's claims are read without verifying its signature.
wsHandler_NoVerify(m, ls, token, connection, now, rs, sendFails, closeFails, refuseFails) ==
    IF ~token.present
    THEN Refuse(m, ls, <<>>, connection, "Authentication required", refuseFails)
    ELSE LET r == addClient(m, ls, token.id, connection, now, rs, sendFails, closeFails)
         IN  IF r.returned = "throw"
             THEN Refuse(r.clients, r.listeners, r.calls, connection, "Invalid token",
                         refuseFails)
             ELSE r

\* The handler of GET /ws.  An exception of jwt.verify or of addClient is
\* caught and answered by closing the connection.  closeFails is handed to
\* addClient; refuseFails tells that the handler's own close(1008) throws,
\* which is a call by itself even when it is made on the socket addClient
\* has just failed to close.
wsHandler(m, ls, token, connection, now, rs, sendFails, closeFails, refuseFails) ==
    IF ~token.present
    THEN Refuse(m, ls, <<>>, connection, "Authentication required", refuseFails)
    ELSE IF ~token.valid
    THEN Refuse(m, ls, <<>>, connection, "Invalid token", refuseFails)
    ELSE LET r == addClient(m, ls, token.id, connection, now, rs, sendFails, closeFails)
         IN  IF r.returned = "throw"
             THEN Refuse(r.clients, r.listeners, r.calls, connection, "Invalid token",
                         refuseFails)
             ELSE r

\* ------------------------------------------------------ the post service
\* PostService.createPost: dbFails tells that prisma.post.create rejected.
\* An exception of broadcast is caught and logged.

\* Mutant: the catch block throws the error on.
createPost_Rethrow(m, authorId, data, now, rs, sendFails, dbFails) ==
    IF dbFails
    THEN [clients |-> m, calls |-> <<>>, count |-> 0, rows |-> 0, returned |-> "throw"]
    ELSE LET r == broadcast(m, NewPostPayload(data), authorId, now, rs, sendFails)
         IN  [clients |-> r.clients, calls |-> r.calls, count |-> r.count,
              rows |-> 1,
              returned |-> IF r.returned = "throw" THEN "throw" ELSE "post"]

\* rows is the number of posts the call has left in the database.
createPost(m, authorId, data, now, rs, sendFails, dbFails) ==
    IF dbFails
    THEN [clients |-> m, calls |-> <<>>, count |-> 0, rows |-> 0, returned |-> "throw"]
    ELSE LET r == broadcast(m, NewPostPayload(data), authorId, now, rs, sendFails)
         IN  [clients |-> r.clients, calls |-> r.calls, count |-> r.count,
              rows |-> 1, returned |-> "post"]

\* ------------------------------------------------------ the user service
\* UserService.updateUser: dbFails tells that findUnique or update rejected,
\* originalUser that findUnique found the row.  An exception of broadcast is
\* caught and logged.
updateUser(m, id, data, originalUser, now, rs, sendFails, dbFails) ==
    IF dbFails
    THEN [clients |-> m, calls |-> <<>>, count |-> 0, returned |-> "throw"]
    ELSE IF originalUser /\ (data.profilePicture \/ data.username)
    THEN LET r == broadcast(m, UserUpdatePayload(data), id, now, rs, sendFails)
         IN  [clients |-> r.clients, calls |-> r.calls, count |-> r.count,
              returned |-> "user"]
    ELSE [clients |-> m, calls |-> <<>>, count |-> 0, returned |-> "user"]

\* ---------------------------------------------------------- the container
\* container.ts registers 'INotificationService' with useClass and no
\* lifecycle, and the factories of PostService and UserService resolve that
\* token: each resolution constructs a NotificationService of its own, not
\* the @singleton instance the notification routes resolve by class.
\* addClient is called by the GET /ws handler only, on the routes' instance,
\* so the Map of an instance the container injected holds no entry.
Injected == <<>>

\* ------------------------------------------------------------- the state
\* The record of one call.  pre is the Map before the call; calls are the
\* close, on and send calls it made on sockets, in order; returned is "void",
\* "true", "false", "count" (with count) or "throw" (an exception reached
\* the caller); caller, role, status and reply are the id and role
\* claims of the caller's token and the HTTP answer when the call came
\* through a route; rows is the number of posts createPost left in the
\* database and users the connectedUsers of the answer of GET /connected;
\* shared tells that the call worked on the registry of the routes, which
\* is the one pre and clients show.
Call(op, userId, socket, payload, pre, calls, returned, count, status, reply) ==
    [op |-> op, userId |-> userId, socket |-> socket, payload |-> payload,
     pre |-> pre, calls |-> calls, returned |-> returned, count |-> count,
     caller |-> NoUser, role |-> "", status |-> status,
     reply |-> reply, rows |-> 0, users |-> <<>>, shared |-> TRUE]

NoCall == Call("none", NoUser, NoSocket, WelcomePayload, <<>>, <<>>, "void", 0, 0, "")

Init ==
    /\ clients = <<>>
    /\ readyState = [socket \in Channels |-> OPEN]
    /\ listeners = {}
    /\ openAtInsert = {}
    /\ last = NoCall

\* openAtInsert after a call that left the Map as m, having stored the keys
\* in stored with a socket whose readyState was s.
Inserted(open, m, stored, s) ==
    KeySet(m) \cap (IF s = OPEN THEN open \cup stored ELSE open \ stored)

\* The sockets the Map holds for one user, or for all.
StoredFor(m, userId) == {m[i].socket : i \in {j \in 1..Len(m) : m[j].userId = userId}}

StoredAll(m) == {m[i].socket : i \in 1..Len(m)}

\* The entries a call can reach, among which the environment picks the ones
\* whose send() or close() throws.  send() is only called on an OPEN socket,
\* and the reaper's close() only on a socket that is not OPEN: a throw is
\* chosen where the call can happen.
Sendable(m, keys, rs) == {userId \in keys \cap KeySet(m) : rs[MapGet(m, userId)] = OPEN}

Reapable(m, rs) == {userId \in KeySet(m) : rs[MapGet(m, userId)] # OPEN}

\* The entries broadcast sends to.
Recipients(m, excludeUserId) ==
    {userId \in KeySet(m) : ~(Truthy(excludeUserId) /\ userId = excludeUserId)}

\* The sockets whose close() was called and returned during calls.
ClosedBy(calls) ==
    {calls[i].socket :
        i \in {j \in 1..Len(calls) : calls[j].fn = "close" /\ ~calls[j].threw}}

\* The readyState close() can leave behind, having returned on sockets: each
\* socket that was CONNECTING or OPEN is, by itself, CLOSING (a WebSocket
\* starts its closing handshake inside close()) or as before (a socket whose
\* close() only records the call); the sockets of one call need not be of
\* one kind.
Closing(rs, sockets) ==
    {[socket \in Channels |-> IF socket \in moved THEN CLOSING ELSE rs[socket]] :
        moved \in SUBSET {socket \in sockets : rs[socket] \in {CONNECTING, OPEN}}}

\* ------------------------------------------------------------- actions
\* addClient closes the stored socket before it stores and greets the new
\* one, so the welcome send reads the readyState that close() left.
AddClient(userId, socket) ==
    \E now \in Clock, closeFails \in SUBSET ({userId} \cap KeySet(clients)) :
    \E rs \in Closing(readyState, IF closeFails = {}
                                   THEN StoredFor(clients, userId) ELSE {}) :
    \E sendFails \in SUBSET (IF rs[socket] = OPEN THEN {userId} ELSE {}) :
        \E r \in {addClient(clients, listeners, userId, socket, now, rs,
                           sendFails, closeFails)} :
            /\ clients' = r.clients
            /\ listeners' = r.listeners
            /\ openAtInsert' = Inserted(openAtInsert, r.clients, r.stored, rs[socket])
            /\ readyState' = rs
            /\ last' = Call("addClient", userId, socket, WelcomePayload, clients,
                            r.calls, r.returned, 0, 0, "")

RemoveClient(userId, socket) ==
    /\ clients' = removeClient(clients, userId, socket)
    /\ openAtInsert' = openAtInsert \cap KeySet(clients')
    /\ last' = Call("removeClient", userId, socket, WelcomePayload, clients,
                    <<>>, "void", 0, 0, "")
    /\ UNCHANGED <<readyState, listeners>>

SendToUser(userId, payload) ==
    \E now \in Clock,
       sendFails \in SUBSET (IF stringifyThrows(payload)
                             THEN {}
                             ELSE Sendable(clients, {userId}, readyState)) :
        \E r \in {sendToUser(clients, userId, payload, now, readyState, sendFails)} :
            /\ clients' = r.clients
            /\ openAtInsert' = openAtInsert \cap KeySet(r.clients)
            /\ last' = Call("sendToUser", userId, NoSocket, payload, clients,
                            r.calls, r.returned, 0, 0, "")
            /\ UNCHANGED <<readyState, listeners>>

\* excludeUserId is carried in the userId field of the call record.
Broadcast(payload, excludeUserId) ==
    \E now \in Clock,
       sendFails \in SUBSET (IF stringifyThrows(payload)
                             THEN {}
                             ELSE Sendable(clients, Recipients(clients, excludeUserId),
                                           readyState)) :
        \E r \in {broadcast(clients, payload, excludeUserId, now, readyState, sendFails)} :
            /\ clients' = r.clients
            /\ openAtInsert' = openAtInsert \cap KeySet(r.clients)
            /\ last' = Call("broadcast", excludeUserId, NoSocket, payload, clients,
                            r.calls, r.returned, r.count, 0, "")
            /\ UNCHANGED <<readyState, listeners>>

CleanupInactiveConnections ==
    \E closeFails \in SUBSET Reapable(clients, readyState) :
        \E r \in {cleanupInactiveConnections(clients, readyState, closeFails)} :
            /\ clients' = r.clients
            /\ openAtInsert' = openAtInsert \cap KeySet(r.clients)
            /\ readyState' \in Closing(readyState, ClosedBy(r.calls))
            /\ last' = Call("cleanupInactiveConnections", NoUser, NoSocket,
                            WelcomePayload, clients, r.calls, r.returned, 0, 0, "")
            /\ UNCHANGED listeners

\* socket emits 'close' or 'error': the closures installed on it run.
SocketEvent(socket, event) ==
    LET captured == {userId \in Users : <<userId, socket>> \in listeners}
    IN  /\ captured # {}
        /\ clients' = emit(clients, captured, socket)
        /\ openAtInsert' = openAtInsert \cap KeySet(clients')
        /\ last' = Call(event, NoUser, socket, WelcomePayload, clients,
                        <<>>, "void", 0, 0, "")
        /\ UNCHANGED <<readyState, listeners>>

\* POST /notifications/send/:userId.  role is the role claim of the caller's
\* token, "anonymous" when the token is missing or does not verify.  The body
\* was parsed from JSON, so it holds no cyclic structure, and the userId
\* parameter passed userIdParamSchema, so it is not empty.
PostSend(role, userId, payload) ==
    /\ ~stringifyThrows(payload)
    /\ userId # ""
    /\ \E now \in Clock,
          sendFails \in SUBSET Sendable(clients, {userId}, readyState) :
        LET denied == authenticate(role, {"ADMIN"})
            r == sendToUser(clients, userId, payload, now, readyState, sendFails)
        IN  IF denied # 0
            THEN /\ last' = [Call("POST /send/:userId", userId, NoSocket, payload, clients,
                                  <<>>, "void", 0, denied, AuthReply(denied))
                              EXCEPT !.role = role]
                 /\ UNCHANGED <<clients, readyState, listeners, openAtInsert>>
            ELSE /\ clients' = r.clients
                 /\ openAtInsert' = openAtInsert \cap KeySet(r.clients)
                 /\ last' = [Call("POST /send/:userId", userId, NoSocket, payload, clients,
                                  r.calls, r.returned, 0,
                                  IF r.returned = "throw" THEN 500 ELSE 200,
                                  sendReply(r.returned))
                              EXCEPT !.role = role]
                 /\ UNCHANGED <<readyState, listeners>>

\* POST /notifications/broadcast.  excludeUserId is carried in the userId
\* field of the call record.
PostBroadcast(role, payload, excludeUserId) ==
    /\ ~stringifyThrows(payload)
    /\ LET denied == authenticate(role, {"ADMIN"})
       IN  IF denied # 0
           THEN /\ last' = [Call("POST /broadcast", excludeUserId, NoSocket, payload,
                                 clients, <<>>, "void", 0, denied, AuthReply(denied))
                             EXCEPT !.role = role]
                /\ UNCHANGED <<clients, readyState, listeners, openAtInsert>>
           ELSE \E now \in Clock,
                   sendFails \in SUBSET Sendable(clients,
                                                 Recipients(clients, excludeUserId),
                                                 readyState) :
                    \E r \in {broadcast(clients, payload, excludeUserId, now,
                                       readyState, sendFails)} :
                        /\ clients' = r.clients
                        /\ openAtInsert' = openAtInsert \cap KeySet(r.clients)
                        /\ last' = [Call("POST /broadcast", excludeUserId, NoSocket,
                                         payload, clients, r.calls, r.returned, r.count,
                                         IF r.returned = "throw" THEN 500 ELSE 200,
                                         IF r.returned = "throw"
                                         THEN "Something went wrong"
                                         ELSE "Broadcast sent successfully")
                                     EXCEPT !.role = role]
                        /\ UNCHANGED <<readyState, listeners>>

\* GET /notifications/connected: the answer carries getConnectedUsers() in
\* users and getConnectionCount() in count.
GetConnected(role) ==
    LET denied == authenticate(role, {"ADMIN"})
    IN  /\ last' = [(IF denied # 0
                     THEN Call("GET /connected", NoUser, NoSocket, WelcomePayload,
                               clients, <<>>, "void", 0, denied, AuthReply(denied))
                     ELSE Call("GET /connected", NoUser, NoSocket, WelcomePayload,
                               clients, <<>>, "count", getConnectionCount(clients),
                               200, ""))
                    EXCEPT !.role = role,
                           !.users = IF denied # 0 THEN <<>>
                                     ELSE getConnectedUsers(clients)]
        /\ UNCHANGED <<clients, readyState, listeners, openAtInsert>>

\* GET /notifications/status/:userId.  caller is the id claim of the token.
GetStatus(role, caller, userId) ==
    /\ userId # ""
    /\ LET denied == authenticate(role, {})
           answer ==
               IF denied # 0
               THEN Call("GET /status/:userId", userId, NoSocket, WelcomePayload,
                         clients, <<>>, "void", 0, denied, AuthReply(denied))
               ELSE IF ~statusAllowed(caller, role, userId)
               THEN Call("GET /status/:userId", userId, NoSocket, WelcomePayload,
                         clients, <<>>, "void", 0, 403, StatusForbidden)
               ELSE Call("GET /status/:userId", userId, NoSocket, WelcomePayload,
                         clients, <<>>,
                         IF isUserConnected(clients, userId) THEN "true" ELSE "false",
                         0, 200, "")
       IN  last' = [answer EXCEPT !.role = role, !.caller = caller]
    /\ UNCHANGED <<clients, readyState, listeners, openAtInsert>>

\* GET /notifications/ws: the upgrade request of connection carries token.
\* The role field of the record tells whether the token verified.  The
\* handler runs once for the socket of an upgrade request, with the one token
\* of that request, so through this route a socket is never offered under a
\* second identity.
WsConnect(token, connection) ==
    /\ \A other \in Users : <<other, connection>> \in listeners => other = token.id
    /\ \E now \in Clock,
          closeFails \in SUBSET (IF token.valid
                                THEN {token.id} \cap KeySet(clients) ELSE {}) :
       \E replaced \in {IF token.valid /\ closeFails = {}
                        THEN StoredFor(clients, token.id) ELSE {}},
          refused \in {~token.valid \/ closeFails # {}} :
       \E rs \in Closing(readyState, replaced),
          refuseFails \in (IF refused THEN BOOLEAN ELSE {FALSE}) :
       \E sendFails \in SUBSET (IF ~refused /\ rs[connection] = OPEN
                                THEN {token.id} ELSE {}) :
        \E r \in {wsHandler(clients, listeners, token, connection, now, rs,
                           sendFails, closeFails, refuseFails)} :
            /\ clients' = r.clients
            /\ listeners' = r.listeners
            /\ openAtInsert' = Inserted(openAtInsert, r.clients, r.stored,
                                        rs[connection])
            /\ readyState' \in (IF refused /\ ~refuseFails
                                THEN Closing(rs, {connection}) ELSE {rs})
            /\ last' = [Call("GET /ws", token.id, connection, WelcomePayload, clients,
                             r.calls, r.returned, 0, 0, "")
                         EXCEPT !.role = IF token.present /\ token.valid
                                         THEN "USER" ELSE "anonymous"]

\* createPost by the user authorId, once prisma.post.create has settled.
\* The reply field of the record tells how it settled.  shared: the
\* PostService was constructed over the registry of the routes, as a caller
\* of its constructor can do; otherwise it came from the container (POST
\* /posts) and holds an injected instance.
CreatePost(shared, authorId, data) ==
    \E now \in Clock, dbFails \in BOOLEAN, m \in {IF shared THEN clients ELSE Injected} :
    \E sendFails \in SUBSET (IF dbFails \/ data = Circular
                             THEN {}
                             ELSE Sendable(m, Recipients(m, authorId), readyState)) :
        \E r \in {createPost(m, authorId, data, now, readyState, sendFails, dbFails)} :
            /\ clients' = IF shared THEN r.clients ELSE clients
            /\ openAtInsert' = openAtInsert \cap KeySet(clients')
            /\ last' = [Call("createPost", authorId, NoSocket, NewPostPayload(data),
                             clients, r.calls, r.returned, r.count, 0,
                             IF dbFails THEN "create rejected" ELSE "create resolved")
                         EXCEPT !.rows = r.rows, !.shared = shared]
            /\ UNCHANGED <<readyState, listeners>>

\* updateUser of the user id, once the database calls have settled; reached
\* from PUT /users/:id when shared is FALSE, whose id parameter is a string
\* of at least one character.
UpdateUser(shared, id, data) ==
    /\ shared \/ id # ""
    /\ \E now \in Clock, dbFails \in BOOLEAN, originalUser \in BOOLEAN,
          m \in {IF shared THEN clients ELSE Injected} :
       \E sendFails \in SUBSET (IF dbFails \/ ~originalUser
                                   \/ ~(data.profilePicture \/ data.username)
                                THEN {}
                                ELSE Sendable(m, Recipients(m, id), readyState)) :
           \E r \in {updateUser(m, id, data, originalUser, now, readyState, sendFails,
                                 dbFails)} :
               /\ clients' = IF shared THEN r.clients ELSE clients
               /\ openAtInsert' = openAtInsert \cap KeySet(clients')
               /\ last' = [Call("updateUser", id, NoSocket, UserUpdatePayload(data),
                                clients, r.calls, r.returned, r.count, 0,
                                IF dbFails THEN "update rejected" ELSE "update resolved")
                            EXCEPT !.shared = shared]
               /\ UNCHANGED <<readyState, listeners>>

\* The socket's state changes under the registry (the peer's close frame
\* moves it to CLOSING and then CLOSED, the transport fails, a test sets the
\* field of its mock); the registry is not told.
SetReadyState(socket, s) ==
    /\ readyState[socket] # s
    /\ readyState' = [readyState EXCEPT ![socket] = s]
    /\ last' = Call("readyState", NoUser, NoSocket, WelcomePayload, clients,
                    <<>>, "void", 0, 0, "")
    /\ UNCHANGED <<clients, listeners, openAtInsert>>

\* last is the model's record of one call, kept for as long as its caller
\* looks at the result.  Idle: no call is being looked at.  Return: the
\* caller is done with the result; the program's state stays as the call
\* left it.  Calls follow one another, each from the state the one before
\* left, so a call is taken from an Idle state.
Idle == last.op = "none"

Return ==
    /\ ~Idle
    /\ last' = [NoCall EXCEPT !.pre = clients]
    /\ UNCHANGED <<clients, readyState, listeners, openAtInsert>>

Next ==
    \/ Idle /\ \E userId \in Users, socket \in Channels : AddClient(userId, socket)
    \/ Idle /\ \E userId \in Users, socket \in Channels : RemoveClient(userId, socket)
    \/ Idle /\ \E userId \in Users, payload \in NotificationPayload :
                  SendToUser(userId, payload)
    \/ Idle /\ \E payload \in NotificationPayload, excludeUserId \in Users \cup {NoUser} :
                  Broadcast(payload, excludeUserId)
    \/ Idle /\ CleanupInactiveConnections
    \/ Idle /\ \E role \in Roles, userId \in Users, payload \in NotificationPayload :
                  PostSend(role, userId, payload)
    \/ Idle /\ \E socket \in Channels, event \in {"close", "error"} :
                  SocketEvent(socket, event)
    \/ Idle /\ \E socket \in Channels, s \in ReadyStates : SetReadyState(socket, s)
    \/ Return

\* The service as an object: any sequence of calls of its methods, among
\* them the calls made through the send route.
Spec == Init /\ [][Next]_vars

\* The server: the registry of the routes is reached through the routes,
\* the upgrade handler and the cleanup timer only; createPost and updateUser
\* broadcast on the instance the container injected.
ServerNext ==
    \/ Idle /\ \E token \in Tokens, connection \in Channels : WsConnect(token, connection)
    \/ Idle /\ \E role \in Roles, userId \in Users, payload \in NotificationPayload :
                  PostSend(role, userId, payload)
    \/ Idle /\ \E role \in Roles, payload \in NotificationPayload,
                    excludeUserId \in Users \cup {NoUser} :
                  PostBroadcast(role, payload, excludeUserId)
    \/ Idle /\ \E role \in Roles : GetConnected(role)
    \/ Idle /\ \E role \in Roles, userId \in Users :
                  \E caller \in IF role = "anonymous" THEN {NoUser} ELSE Callers :
                     GetStatus(role, caller, userId)
    \/ Idle /\ \E authorId \in Users, data \in Posts : CreatePost(FALSE, authorId, data)
    \/ Idle /\ \E id \in Users, data \in UserUpdates : UpdateUser(FALSE, id, data)
    \/ Idle /\ CleanupInactiveConnections
    \/ Idle /\ \E socket \in Channels, event \in {"close", "error"} :
                  SocketEvent(socket, event)
    \/ Idle /\ \E socket \in Channels, s \in ReadyStates : SetReadyState(socket, s)
    \/ Return

ServerSpec == Init /\ [][ServerNext]_vars

\* PostService and UserService constructed over the registry itself, next to
\* registrations and changes of readyState.
WiredNext ==
    \/ Idle /\ \E userId \in Users, socket \in Channels : AddClient(userId, socket)
    \/ Idle /\ \E authorId \in Users, data \in Posts : CreatePost(TRUE, authorId, data)
    \/ Idle /\ \E id \in Users, data \in UserUpdates : UpdateUser(TRUE, id, data)
    \/ Idle /\ \E socket \in Channels, s \in ReadyStates : SetReadyState(socket, s)
    \/ Return

WiredSpec == Init /\ [][WiredNext]_vars

\* The cleanup timer's turn.
Tick == Idle /\ CleanupInactiveConnections

\* Connections and the cleanup timer alone, with no request that sends:
\* clients connect, sockets change state and emit events, and setInterval
\* keeps calling cleanupInactiveConnections for as long as the server runs.
TimerNext ==
    \/ Idle /\ \E token \in Tokens, connection \in Channels : WsConnect(token, connection)
    \/ Tick
    \/ Idle /\ \E socket \in Channels, event \in {"close", "error"} :
                  SocketEvent(socket, event)
    \/ Idle /\ \E socket \in Channels, s \in ReadyStates : SetReadyState(socket, s)
    \/ Return

\* Every call returns, and the timer fires again and again however many
\* other calls are taken in between.
TimerSpec == Init /\ [][TimerNext]_vars /\ WF_vars(Return) /\ SF_vars(Tick)

\* ------------------------------------------------------- reading a call
\* The sockets send() or close() was called on during the last call.
Called(fn) == {last.calls[i].socket : i \in {j \in 1..Len(last.calls) : last.calls[j].fn = fn}}

\* The number of fn calls socket received during the last call.
CallCount(fn, socket) ==
    Cardinality({i \in 1..Len(last.calls) :
                    last.calls[i].fn = fn /\ last.calls[i].socket = socket})

\* The sockets on which a call of fn threw during the last call.
Threw(fn) ==
    {last.calls[i].socket :
        i \in {j \in 1..Len(last.calls) : last.calls[j].fn = fn /\ last.calls[j].threw}}

\* The socket the Map held for the call's userId before the call.
PreSocket == MapGet(last.pre, last.userId)

\* The call replaced a registered socket by a second one.
Replacing ==
    /\ last.op = "addClient"
    /\ MapHas(last.pre, last.userId)
    /\ PreSocket # last.socket

\* The welcome message of the last addClient went out through the new socket.
WelcomeDelivered ==
    /\ readyState[last.socket] = OPEN
    /\ last.socket \notin Threw("send")

\* The fields of a payload: its keys that carry a value.
PayloadFields(payload) ==
    {<<k, payload[k]>> : k \in {f \in DOMAIN payload : payload[f] # Undefined}}

\* -------------------------------------------------------------- claims

\* C1 (as stated): when u holds c1, Register(u, c2) with a second channel c2
\* makes c1 receive a close call, leaves the entry of u equal to c2 and leaves
\* ConnectionCount() as it was.
C1_Original ==
    Replacing =>
        /\ PreSocket \in Called("close")
        /\ MapGet(clients, last.userId) = last.socket
        /\ getConnectionCount(clients) = getConnectionCount(last.pre)

\* C1 (amended): when u holds c1, Register(u, c2) with a second channel c2
\* makes c1 receive exactly one close call and never raises ConnectionCount().
\* If that close raises, Register raises and the Map is as before (u still
\* holds c1).  Otherwise, if c2 is OPEN and the welcome write succeeds, the
\* entry of u equals c2 and the count is unchanged; if c2 is not OPEN or the
\* welcome write fails, u has no entry and the count has dropped by one.
C1_Replacement ==
    Replacing =>
        /\ CallCount("close", PreSocket) = 1
        /\ IF PreSocket \in Threw("close")
           THEN /\ last.returned = "throw"
                /\ clients = last.pre
           ELSE /\ last.returned = "void"
                /\ IF WelcomeDelivered
                   THEN /\ MapGet(clients, last.userId) = last.socket
                        /\ getConnectionCount(clients) = getConnectionCount(last.pre)
                   ELSE /\ ~isUserConnected(clients, last.userId)
                        /\ getConnectionCount(clients) = getConnectionCount(last.pre) - 1

\* C1 witness: a replacement that went through: c1 was closed, u holds c2.
C1_Witness ==
    /\ Replacing
    /\ PreSocket \in Called("close")
    /\ MapGet(clients, last.userId) = last.socket
    /\ getConnectionCount(clients) = getConnectionCount(last.pre)

\* C2: a 'close' or 'error' event of socket c removes the entry of u only if
\* a closure for (u, c) was installed and the Map holds c for u when the event
\* is handled; every other entry, the entry of a user re-registered with
\* another socket included, is left as it was.
C2_StaleSignalGuard ==
    last.op \in {"close", "error"} =>
        \A u \in Users :
            IF MapHas(last.pre, u) /\ MapGet(last.pre, u) = last.socket
                                  /\ <<u, last.socket>> \in listeners
            THEN ~MapHas(clients, u)
            ELSE /\ MapHas(clients, u) = MapHas(last.pre, u)
                 /\ MapGet(clients, u) = MapGet(last.pre, u)

\* C2 witness: the old socket of u signals after u was re-registered with
\* another socket, and the newer entry is still there.
C2_Witness ==
    /\ last.op \in {"close", "error"}
    /\ \E u \in Users :
          /\ <<u, last.socket>> \in listeners
          /\ MapHas(last.pre, u)
          /\ MapGet(last.pre, u) # last.socket
          /\ MapGet(clients, u) = MapGet(last.pre, u)

\* C3: Remove(u, c) deletes the entry of u exactly when the Map holds c for
\* u; when it holds another socket for u, or none, the Map is unchanged; no
\* other entry changes and nothing is raised.
C3_StaleRemoveNoOp ==
    last.op = "removeClient" =>
        /\ last.returned = "void"
        /\ last.calls = <<>>
        /\ IF MapHas(last.pre, last.userId) /\ PreSocket = last.socket
           THEN /\ ~isUserConnected(clients, last.userId)
                /\ \A v \in Users \ {last.userId} :
                      /\ MapHas(clients, v) = MapHas(last.pre, v)
                      /\ MapGet(clients, v) = MapGet(last.pre, v)
           ELSE clients = last.pre

\* C3 witness: Remove(u, c) while the Map holds another socket for u.
C3_Witness ==
    /\ last.op = "removeClient"
    /\ MapHas(last.pre, last.userId)
    /\ PreSocket # last.socket
    /\ isUserConnected(clients, last.userId)
    /\ MapGet(clients, last.userId) = PreSocket

\* C4 (as stated): after Register(u, c) returns, IsConnected(u) is true and
\* ConnectionCount() has grown by at most 1, by 0 if u was registered.
C4_Original ==
    (last.op = "addClient" /\ last.returned = "void") =>
        /\ isUserConnected(clients, last.userId)
        /\ getConnectionCount(clients) <= getConnectionCount(last.pre) + 1
        /\ MapHas(last.pre, last.userId) =>
              getConnectionCount(clients) = getConnectionCount(last.pre)

\* C4 (amended): after Register(u, c) returns, IsConnected(u) is true exactly
\* when c is OPEN and the welcome write succeeded; ConnectionCount() has grown
\* by exactly 1 when u was not registered and is now connected, and has not
\* grown in any other case.
C4_RegisterPostcondition ==
    (last.op = "addClient" /\ last.returned = "void") =>
        /\ isUserConnected(clients, last.userId) <=> WelcomeDelivered
        /\ getConnectionCount(clients) =
              getConnectionCount(last.pre)
                 + (IF isUserConnected(clients, last.userId) THEN 1 ELSE 0)
                 - (IF MapHas(last.pre, last.userId) THEN 1 ELSE 0)

\* C4 witness: a first registration on an OPEN socket: u is connected and the
\* count went up by one.
C4_Witness ==
    /\ last.op = "addClient"
    /\ last.returned = "void"
    /\ ~MapHas(last.pre, last.userId)
    /\ isUserConnected(clients, last.userId)
    /\ getConnectionCount(clients) = getConnectionCount(last.pre) + 1

\* C5: Register never fails: when closing the socket u already holds raises,
\* Register(u, c) raises nothing, the new entry (u, c) is inserted (and stays
\* when the welcome message is delivered), the close/error subscriptions on c
\* are installed and the welcome message is attempted on c (an OPEN c
\* receives a send call).
C5_RegisterNeverFails ==
    (/\ last.op = "addClient"
     /\ MapHas(last.pre, last.userId)
     /\ PreSocket \in Threw("close")) =>
        /\ last.returned = "void"
        /\ <<last.userId, last.socket>> \in listeners
        /\ readyState[last.socket] = OPEN => last.socket \in Called("send")
        /\ WelcomeDelivered => MapGet(clients, last.userId) = last.socket

\* C6: a payload that cannot be serialized: SendToIdentity(u, payload) for a
\* registered u raises nothing, removes the entry of u and returns false;
\* Broadcast raises nothing.
C6_SerializationAbsorbed ==
    /\ (last.op = "sendToUser" /\ MapHas(last.pre, last.userId)
                               /\ stringifyThrows(last.payload)) =>
          /\ last.returned = "false"
          /\ ~isUserConnected(clients, last.userId)
    /\ last.op = "broadcast" => last.returned # "throw"

\* C7: for a registered u whose socket is OPEN, if the socket's send raises,
\* SendToIdentity(u, payload) raises nothing, removes the entry of u and
\* returns false.
C7_WriteFailureAbsorbed ==
    (/\ last.op = "sendToUser"
     /\ MapHas(last.pre, last.userId)
     /\ readyState[PreSocket] = OPEN
     /\ PreSocket \in Threw("send")) =>
        /\ last.returned = "false"
        /\ ~isUserConnected(clients, last.userId)

\* C7 witness: a send on an OPEN socket raised; u is gone, false came back.
C7_Witness ==
    /\ last.op = "sendToUser"
    /\ MapHas(last.pre, last.userId)
    /\ readyState[PreSocket] = OPEN
    /\ PreSocket \in Threw("send")
    /\ last.returned = "false"
    /\ ~isUserConnected(clients, last.userId)

\* C8: for a registered u whose socket is not OPEN, SendToIdentity(u, payload)
\* returns false, makes no send call and leaves u not connected.
C8_NotReadySend ==
    (/\ last.op = "sendToUser"
     /\ MapHas(last.pre, last.userId)
     /\ readyState[PreSocket] # OPEN) =>
        /\ last.returned = "false"
        /\ Called("send") = {}
        /\ ~isUserConnected(clients, last.userId)

\* C9: for u with no entry, SendToIdentity(u, payload) returns false, makes no
\* send or close call and leaves the Map as it was; the admin send route
\* answers 200 with sent: false and 'User not connected'.
C9_UnregisteredSend ==
    /\ (last.op = "sendToUser" /\ ~MapHas(last.pre, last.userId)) =>
          /\ last.returned = "false"
          /\ last.calls = <<>>
          /\ clients = last.pre
    /\ (/\ last.op = "POST /send/:userId"
        /\ last.role = "ADMIN"
        /\ ~MapHas(last.pre, last.userId)) =>
          /\ last.status = 200
          /\ last.returned = "false"
          /\ last.reply = "User not connected"
          /\ last.calls = <<>>
          /\ clients = last.pre

\* C9 witness: an admin's send to an identity that is not registered.
C9_Witness ==
    /\ last.op = "POST /send/:userId"
    /\ last.role = "ADMIN"
    /\ ~MapHas(last.pre, last.userId)
    /\ last.status = 200
    /\ last.reply = "User not connected"
    /\ getConnectionCount(clients) = 1

\* C10: for a registered u whose socket is OPEN and whose write succeeds,
\* SendToIdentity(u, payload) returns true; the socket stored for u receives
\* exactly one send call, whose message is the payload's fields unchanged plus
\* a timestamp field set by the server; no other socket receives a call; the
\* Map is unchanged.
C10_TargetedSend ==
    (/\ last.op = "sendToUser"
     /\ MapHas(last.pre, last.userId)
     /\ readyState[PreSocket] = OPEN
     /\ ~stringifyThrows(last.payload)
     /\ PreSocket \notin Threw("send")) =>
        /\ last.returned = "true"
        /\ Len(last.calls) = 1
        /\ last.calls[1].fn = "send"
        /\ last.calls[1].socket = PreSocket
        /\ \E now \in Clock :
              last.calls[1].message =
                 PayloadFields(last.payload) \cup {<<"timestamp", now>>}
        /\ clients = last.pre

\* C10 witness: a delivered send with a data attachment while two users are
\* registered.
C10_Witness ==
    /\ last.op = "sendToUser"
    /\ last.returned = "true"
    /\ last.payload.data # Undefined
    /\ Called("send") = {PreSocket}
    /\ getConnectionCount(clients) = 2

\* C11 (as stated): for every identity u that is a key of the Map, N being
\* the number of keys, Broadcast(payload, exclude = u) that returns, returns
\* a count of at most N - 1, and the socket of u receives no send call.
C11_BroadcastExclusion ==
    (/\ last.op = "broadcast"
     /\ MapHas(last.pre, last.userId)
     /\ last.returned = "count") =>
        /\ last.count <= getConnectionCount(last.pre) - 1
        /\ PreSocket \notin Called("send")

\* C12 (as stated): Broadcast(payload, exclude) returns a count; every key of
\* the Map other than exclude whose socket is OPEN receives exactly one send
\* call, whatever happened to the others; the count is the number of those
\* whose socket was OPEN and whose write succeeded; those keep their entry
\* and every other recipient has lost it.
C12_BroadcastFanOut ==
    last.op = "broadcast" =>
        LET recipients == {u \in Users : MapHas(last.pre, u) /\ u # last.userId}
            delivered == {u \in recipients :
                             /\ readyState[MapGet(last.pre, u)] = OPEN
                             /\ MapGet(last.pre, u) \notin Threw("send")}
        IN  /\ last.returned = "count"
            /\ \A u \in recipients :
                  CallCount("send", MapGet(last.pre, u)) =
                     IF readyState[MapGet(last.pre, u)] = OPEN THEN 1 ELSE 0
            /\ last.count = Cardinality(delivered)
            /\ \A u \in recipients :
                  IF u \in delivered
                  THEN MapGet(clients, u) = MapGet(last.pre, u)
                  ELSE ~isUserConnected(clients, u)

\* C13: after ReapInactive() the Map holds exactly the entries it held before
\* whose socket reports OPEN, in their order; every entry whose socket was
\* not OPEN is gone and its socket received one close call for each entry
\* that stored it; the socket of every kept entry received no close call;
\* nothing was sent.
C13_Reaping ==
    last.op = "cleanupInactiveConnections" =>
        /\ clients = SelectSeq(last.pre, LAMBDA e : readyState[e.socket] = OPEN)
        /\ \A u \in Users :
              MapHas(last.pre, u) =>
                 IF readyState[MapGet(last.pre, u)] = OPEN
                 THEN /\ MapGet(clients, u) = MapGet(last.pre, u)
                      /\ CallCount("close", MapGet(last.pre, u)) = 0
                 ELSE /\ ~isUserConnected(clients, u)
                      /\ CallCount("close", MapGet(last.pre, u)) =
                            Cardinality({v \in Users :
                                MapGet(last.pre, v) = MapGet(last.pre, u)})
        /\ Called("send") = {}

\* C13 witness: a reaping that kept one entry and removed the other.
C13_Witness ==
    /\ last.op = "cleanupInactiveConnections"
    /\ getConnectionCount(last.pre) = 2
    /\ getConnectionCount(clients) = 1
    /\ Called("close") = StoredAll(last.pre) \ StoredAll(clients)
    /\ Threw("close") = {}

\* C14: when close() of a socket that is not OPEN throws during
\* ReapInactive(), the call still returns normally, and every entry whose
\* socket is not OPEN, the throwing one and the ones visited after it, is
\* removed, its socket having received one close call for each entry that
\* stored it.
C14_ReapingToleratesCloseFailure ==
    (/\ last.op = "cleanupInactiveConnections"
     /\ Threw("close") # {}) =>
        /\ last.returned = "void"
        /\ \A u \in Users :
              (MapHas(last.pre, u) /\ readyState[MapGet(last.pre, u)] # OPEN) =>
                 /\ ~isUserConnected(clients, u)
                 /\ CallCount("close", MapGet(last.pre, u)) =
                       Cardinality({v \in Users :
                           MapGet(last.pre, v) = MapGet(last.pre, u)})

\* C14 witness: the close of the first entry threw, and the second entry was
\* closed and removed after it.
C14_Witness ==
    /\ last.op = "cleanupInactiveConnections"
    /\ Len(last.calls) = 2
    /\ last.calls[1].threw
    /\ ~last.calls[2].threw
    /\ clients = <<>>
    /\ last.returned = "void"

\* C15: in every reachable state, every entry of the Map was put there while
\* its socket reported OPEN.
C15_InsertedOpen ==
    \A u \in Users : isUserConnected(clients, u) => u \in openAtInsert

\* C15 witness: an entry inserted on an OPEN socket is still in the Map after
\* its socket has left OPEN.
C15_Witness ==
    \E u \in Users :
        /\ isUserConnected(clients, u)
        /\ u \in openAtInsert
        /\ readyState[MapGet(clients, u)] # OPEN

\* C16 (as stated): Register(u, c) sends exactly one message through c, the
\* SYSTEM notification 'Connected to notification service', after the entry
\* is stored and the close and error listeners are installed on c; the
\* socket u held before receives no send call; a failed welcome write is not
\* raised.
C16_Original ==
    last.op = "addClient" =>
        /\ CallCount("send", last.socket) = 1
        /\ CallCount("on", last.socket) = 2
        /\ last.calls[Len(last.calls)].fn = "send"
        /\ \E now \in Clock :
              last.calls[Len(last.calls)].message =
                 PayloadFields(WelcomePayload) \cup {<<"timestamp", now>>}
        /\ Replacing => PreSocket \notin Called("send")
        /\ Threw("send") # {} => last.returned = "void"

\* C16 (amended): when closing the socket u held raises, Register(u, c) raises
\* having subscribed to nothing and sent nothing.  Otherwise it returns
\* normally, having installed the close and the error listener on c; it
\* makes no send call on any other socket; when c is OPEN it makes exactly
\* one send call on c, as its last call, whose message is the SYSTEM
\* notification 'Connected to notification service' with a timestamp, and a
\* failure of that write is not raised; when c is not OPEN it sends nothing.
\* When the write succeeded the entry of u holds c.
C16_Welcome ==
    last.op = "addClient" =>
        IF last.returned = "throw"
        THEN /\ Called("send") = {}
             /\ Called("on") = {}
        ELSE /\ last.returned = "void"
             /\ Called("send") \subseteq {last.socket}
             /\ Called("on") = {last.socket}
             /\ CallCount("on", last.socket) = 2
             /\ CallCount("send", last.socket) =
                   IF readyState[last.socket] = OPEN THEN 1 ELSE 0
             /\ \A i \in 1..Len(last.calls) :
                   last.calls[i].fn = "send" =>
                      /\ i = Len(last.calls)
                      /\ \E now \in Clock :
                            last.calls[i].message =
                               PayloadFields(WelcomePayload) \cup {<<"timestamp", now>>}
             /\ WelcomeDelivered => MapGet(clients, last.userId) = last.socket

\* C16 witness: a replacement whose welcome write on the new socket threw
\* and was not raised.
C16_Witness ==
    /\ Replacing
    /\ last.returned = "void"
    /\ Threw("send") = {last.socket}
    /\ CallCount("send", last.socket) = 1
    /\ PreSocket \notin Called("send")

\* C17: Remove(u, c) called a second time in a row leaves the Map as the
\* first call left it: in the state any Remove(u, c) has left, Remove(u, c)
\* changes nothing; and no Remove makes a call on a socket or raises.
C17_RemoveIdempotent ==
    last.op = "removeClient" =>
        /\ removeClient(clients, last.userId, last.socket) = clients
        /\ removeClient(last.pre, last.userId, last.socket) = clients
        /\ last.calls = <<>>
        /\ last.returned = "void"

\* C17 witness: a Remove(u, c) that deleted the entry of u while another user
\* is connected, so that a second Remove(u, c) finds a Map that is not empty
\* and no entry for u.
C17_Witness ==
    /\ last.op = "removeClient"
    /\ MapGet(last.pre, last.userId) = last.socket
    /\ ~isUserConnected(clients, last.userId)
    /\ getConnectionCount(clients) = 1

\* The routes of the notification API that require a token.
RouteOps ==
    {"POST /send/:userId", "POST /broadcast", "GET /connected", "GET /status/:userId"}

\* The last request was answered without a call of the service.
NotInvoked ==
    /\ last.returned = "void"
    /\ last.calls = <<>>
    /\ clients = last.pre

\* C18: an upgrade request without a token, or with a token that does not
\* verify, gets its connection closed with code 1008 and Register is not
\* called: no listener is installed, nothing is sent, the Map is unchanged.
\* With a token that verifies, Register is called with the token's id claim
\* and the connection: either the listeners of that pair are installed on the
\* connection, or Register raised on closing the socket the id held.
C18_UpgradeAuthentication ==
    last.op = "GET /ws" =>
        IF last.role = "anonymous"
        THEN /\ Len(last.calls) = 1
             /\ last.calls[1].fn = "close"
             /\ last.calls[1].socket = last.socket
             /\ <<"code", "1008">> \in last.calls[1].message
             /\ clients = last.pre
        ELSE \/ /\ CallCount("on", last.socket) = 2
                /\ Called("on") = {last.socket}
                /\ <<last.userId, last.socket>> \in listeners
             \/ /\ MapHas(last.pre, last.userId)
                /\ last.calls[1] = CloseCall(PreSocket, TRUE)
                /\ clients = last.pre

\* C18 witness: a token that does not verify is turned away while the
\* identity it names is connected on another socket.
C18_Witness ==
    /\ last.op = "GET /ws"
    /\ last.role = "anonymous"
    /\ <<"reason", "Invalid token">> \in last.calls[1].message
    /\ isUserConnected(clients, last.userId)
    /\ PreSocket # last.socket

\* C19: on the four routes, a request without a valid token is answered 401
\* and a request of a non-admin 403, both without a call of the service,
\* except that a non-admin asking for the status of their own id is answered
\* with IsConnected of that id; an admin's request is answered 200 with the
\* result of the service call, for any id.
C19_RoleGating ==
    last.op \in RouteOps =>
        IF last.role = "anonymous"
        THEN last.status = 401 /\ NotInvoked
        ELSE IF last.role = "ADMIN"
        THEN last.status = 200 /\ last.returned # "void"
        ELSE IF last.op = "GET /status/:userId" /\ last.caller = last.userId
        THEN /\ last.status = 200
             /\ last.returned =
                   IF isUserConnected(last.pre, last.userId) THEN "true" ELSE "false"
        ELSE last.status = 403 /\ NotInvoked

\* C19 witness: a non-admin asks for the status of another id, which is
\* connected, and is answered 403.
C19_Witness ==
    /\ last.op = "GET /status/:userId"
    /\ last.role = "USER"
    /\ last.caller # last.userId
    /\ isUserConnected(clients, last.userId)
    /\ last.status = 403
    /\ last.reply = StatusForbidden

\* C20 (as stated): createPost(authorId, data) that stored the post makes
\* send calls for the NEW_POST notification only; the socket of the author
\* receives none, and the socket of every other registered identity that is
\* OPEN receives exactly one.
C20_NewPostFanOut ==
    (/\ last.op = "createPost"
     /\ last.returned = "post") =>
        /\ \A i \in 1..Len(last.calls) :
              /\ last.calls[i].fn = "send"
              /\ <<"type", "NEW_POST">> \in last.calls[i].message
        /\ MapHas(last.pre, last.userId) => PreSocket \notin Called("send")
        /\ \A u \in Users \ {last.userId} :
              (MapHas(last.pre, u) /\ readyState[MapGet(last.pre, u)] = OPEN) =>
                 CallCount("send", MapGet(last.pre, u)) = 1

\* The broadcast of the last createPost raised: its notification cannot be
\* serialized and the Map held an entry that broadcast does not skip.
BroadcastRaised ==
    /\ last.op = "createPost"
    /\ last.shared
    /\ last.reply = "create resolved"
    /\ stringifyThrows(last.payload)
    /\ \E u \in Users :
          MapHas(last.pre, u) /\ ~(Truthy(last.userId) /\ u = last.userId)

\* C21: when Broadcast raises during createPost, createPost raises nothing
\* and returns the post, which is still in the database.
C21_NotificationFailureAbsorbed ==
    BroadcastRaised =>
        /\ last.returned = "post"
        /\ last.rows = 1

\* C21 witness: a createPost whose broadcast raised before any send, with a
\* connected user other than the author.
C21_Witness ==
    /\ BroadcastRaised
    /\ last.calls = <<>>
    /\ \E u \in Users \ {last.userId} : isUserConnected(clients, u)
    /\ last.returned = "post"

\* C22 (as stated): SendToIdentity(u, payload) for a registered u whose
\* socket is CONNECTING, CLOSING or CLOSED makes no send call and removes
\* the entry, and for an OPEN socket makes the send call; ReapInactive closes
\* and removes every entry whose socket is CONNECTING, CLOSING or CLOSED and
\* leaves every OPEN one alone.
C22_OnlyOpenIsReady ==
    /\ (last.op = "sendToUser" /\ MapHas(last.pre, last.userId)) =>
          IF readyState[PreSocket] \in {CONNECTING, CLOSING, CLOSED}
          THEN /\ Called("send") = {}
               /\ ~isUserConnected(clients, last.userId)
          ELSE CallCount("send", PreSocket) = 1
    /\ last.op = "cleanupInactiveConnections" =>
          \A u \in Users :
             MapHas(last.pre, u) =>
                IF readyState[MapGet(last.pre, u)] \in {CONNECTING, CLOSING, CLOSED}
                THEN /\ MapGet(last.pre, u) \in Called("close")
                     /\ ~isUserConnected(clients, u)
                ELSE /\ MapGet(last.pre, u) \notin Called("close")
                     /\ MapGet(clients, u) = MapGet(last.pre, u)

\* An entry whose socket does not report OPEN.
StaleEntry(u) == isUserConnected(clients, u) /\ readyState[MapGet(clients, u)] # OPEN

\* C23: under the periodic timer no entry whose socket has left OPEN stays
\* for ever: whatever else happens, with or without close and error events
\* and sends, the Map is again and again free of such entries, so each of
\* them is eventually removed unless its socket reports OPEN again.
C23_EventualCleanup == []<>(\A u \in Users : ~StaleEntry(u))

\* C23 witness: the timer removed an entry whose socket had left OPEN, with
\* the listeners of the pair still installed and nothing sent.
C23_Witness ==
    /\ last.op = "cleanupInactiveConnections"
    /\ \E u \in Users :
          /\ MapHas(last.pre, u)
          /\ readyState[MapGet(last.pre, u)] # OPEN
          /\ <<u, MapGet(last.pre, u)>> \in listeners
          /\ ~isUserConnected(clients, u)
    /\ Called("send") = {}

\* C24: the socket stored for u changes in two ways only.  It becomes c by
\* Register(u, c).  It becomes absent by Remove(u, c) with the stored c, by
\* a close or error event of the stored socket, by a send that found the
\* socket not OPEN or whose write threw (SendToIdentity, Broadcast, or the
\* welcome of a Register for u), or by the reaper on a socket that is not
\* OPEN.  Every stored socket was the argument of a Register for its key.
C24_EntryLifecycle ==
    \A u \in Users :
        LET before == MapGet(last.pre, u)
            after == MapGet(clients, u)
        IN  /\ after # before =>
                 IF after # NoSocket
                 THEN /\ last.op = "addClient"
                      /\ last.userId = u
                      /\ last.socket = after
                 ELSE \/ /\ last.op = "removeClient"
                         /\ last.userId = u
                         /\ last.socket = before
                      \/ /\ last.op \in {"close", "error"}
                         /\ last.socket = before
                      \/ /\ last.op \in {"sendToUser", "POST /send/:userId"}
                         /\ last.userId = u
                         /\ (readyState[before] # OPEN \/ before \in Threw("send"))
                      \/ /\ last.op = "broadcast"
                         /\ (readyState[before] # OPEN \/ before \in Threw("send"))
                      \/ /\ last.op = "cleanupInactiveConnections"
                         /\ readyState[before] # OPEN
                      \/ /\ last.op = "addClient"
                         /\ last.userId = u
                         /\ ~WelcomeDelivered
            /\ after # NoSocket => <<u, after>> \in listeners

\* C24 witness: an error event of the stored socket made the entry absent
\* while the other user's entry stayed.
C24_Witness ==
    /\ last.op = "error"
    /\ \E u \in Users :
          /\ MapGet(last.pre, u) = last.socket
          /\ ~isUserConnected(clients, u)
    /\ getConnectionCount(clients) = 1

\* C26: after Register(u, c) returns, u is registered with c if and only if
\* c reported OPEN and the welcome write succeeded; otherwise u has no entry
\* at all, even if u held a socket c1 before the call: c1 received its close
\* call and is stored for u no longer, and c was removed by the failed send.
C26_RegisterOutcome ==
    (last.op = "addClient" /\ last.returned = "void") =>
        /\ MapGet(clients, last.userId) = last.socket <=> WelcomeDelivered
        /\ ~WelcomeDelivered =>
              /\ ~isUserConnected(clients, last.userId)
              /\ getConnectionCount(clients) =
                    getConnectionCount(MapDelete(last.pre, last.userId))
        /\ MapHas(last.pre, last.userId) =>
              /\ CallCount("close", PreSocket) = 1
              /\ PreSocket # last.socket =>
                    MapGet(clients, last.userId) # PreSocket

\* C26 witness: u held an OPEN socket c1, registered a second socket whose
\* welcome was not delivered, and has no entry left.
C26_Witness ==
    /\ Replacing
    /\ last.returned = "void"
    /\ readyState[PreSocket] = OPEN
    /\ ~WelcomeDelivered
    /\ ~isUserConnected(clients, last.userId)

\* C27: Register(u, c) never calls close on c, the socket it registers; the
\* only socket it closes is one stored for u before the call that differs
\* from c.
C27_NeverClosesRegistered ==
    last.op = "addClient" =>
        /\ last.socket \notin Called("close")
        /\ Called("close") \subseteq {MapGet(last.pre, last.userId)} \ {NoSocket}

\* The operations that only read the registry.
QueryOps == {"GET /connected", "GET /status/:userId"}

\* C28: in every reachable state ConnectionCount() equals the length of
\* ListConnectedIdentities(), the list has no duplicates, and IsConnected(u)
\* holds exactly when u occurs in the list; a query changes neither the Map
\* nor any socket (no send, no close), and its answer agrees with the list.
C28_IntrospectionConsistency ==
    LET list == getConnectedUsers(clients)
    IN  /\ getConnectionCount(clients) = Len(list)
        /\ \A i, j \in 1..Len(list) : list[i] = list[j] => i = j
        /\ \A u \in Users \cup Callers :
              isUserConnected(clients, u) <=> \E i \in 1..Len(list) : list[i] = u
        /\ last.op \in QueryOps =>
              /\ clients = last.pre
              /\ last.calls = <<>>
        /\ (last.op = "GET /connected" /\ last.status = 200) =>
              /\ last.users = list
              /\ last.count = Len(last.users)
        /\ (last.op = "GET /status/:userId" /\ last.status = 200) =>
              (last.returned = "true" <=>
                  \E i \in 1..Len(list) : list[i] = last.userId)

\* C28 witness: GET /connected answered with two connected users.
C28_Witness ==
    /\ last.op = "GET /connected"
    /\ last.status = 200
    /\ Len(last.users) = 2
    /\ last.count = 2

\* C29: Register(u, c), Remove(u, c), SendToIdentity(u, payload) and a close
\* or error event of a socket registered for u never change the entry of
\* another identity v and never call send or close on v's socket; Broadcast
\* with exclude = u leaves the entry of u as it was, whatever the readyState
\* of u's socket.
C29_PerIdentityFrame ==
    /\ last.op \in {"addClient", "removeClient", "sendToUser"} =>
          \A v \in Users \ {last.userId} :
              /\ MapGet(clients, v) = MapGet(last.pre, v)
              /\ MapHas(last.pre, v) =>
                    MapGet(last.pre, v) \notin Called("send") \cup Called("close")
    /\ last.op \in {"close", "error"} =>
          /\ \A v \in Users :
                <<v, last.socket>> \notin listeners =>
                    MapGet(clients, v) = MapGet(last.pre, v)
          /\ last.calls = <<>>
    /\ (last.op = "broadcast" /\ MapHas(last.pre, last.userId)) =>
          MapGet(clients, last.userId) = PreSocket

\* C30: the registry calls close in two places only: once on the socket the
\* user held before, during Register, and once for each entry whose socket
\* is not OPEN, during ReapInactive.  Remove, a close or error event, and
\* SendToIdentity or Broadcast dropping an entry (not OPEN, or a write that
\* threw) make no close call, and ReapInactive closes no socket that is not
\* stored when it runs.
C30_WhereCloseIsCalled ==
    /\ last.op = "addClient" =>
          /\ Called("close") = {PreSocket} \ {NoSocket}
          /\ \A socket \in Channels : CallCount("close", socket) <= 1
    /\ last.op = "cleanupInactiveConnections" =>
          /\ Called("close") =
                {MapGet(last.pre, u) :
                    u \in {v \in Users : /\ MapHas(last.pre, v)
                                         /\ readyState[MapGet(last.pre, v)] # OPEN}}
          /\ \A socket \in Channels :
                CallCount("close", socket) <=
                   Cardinality({v \in Users : MapGet(last.pre, v) = socket})
    /\ last.op \notin {"addClient", "cleanupInactiveConnections"} =>
          Called("close") = {}

\* C30 witness: the reaper ran over a non-empty Map while a socket that had
\* been registered, and dropped, was not OPEN: it closed nothing.
C30_Witness ==
    /\ last.op = "cleanupInactiveConnections"
    /\ getConnectionCount(last.pre) = 1
    /\ \E socket \in Channels :
          /\ readyState[socket] # OPEN
          /\ \E u \in Users : <<u, socket>> \in listeners
          /\ \A u \in Users : MapGet(last.pre, u) # socket
    /\ Called("close") = {}

====
